---------------------------- MODULE Spec2Model ----------------------------
(***************************************************************************)
(* Model of the podcast feed parser (rss_parser.py: PodcastRSSParser) and  *)
(* of the paginated search tool (podcast_mcp/server.py).  Spec, QuerySpec  *)
(* and PageSpec take each call of the parser as one step; ConcSpec runs    *)
(* concurrent calls of _get_feed line by line.                             *)
(*                                                                         *)
(* Representation.                                                         *)
(*  - A show name, a guid, an episode number and a transcript url are TLA+ *)
(*    strings, only ever compared for equality.  A Python None or ""       *)
(*    argument is the empty string (the code tests both with `if x`).      *)
(*  - Free text (title, description, host names, the text needle) is a     *)
(*    sequence of one-character strings, so that lower(), strip() and the  *)
(*    substring test are computed.                                         *)
(*  - A date string is a record of the tokens strptime reads: its layout   *)
(*    (which of the source's formats its punctuation follows) and its      *)
(*    numeric fields.  Layout "" is the empty string.                      *)
(*  - An XML element of an item is a record [st, text]: st = "absent" (no  *)
(*    such child), "empty" (child without text: .text is None) or "text".  *)
(*  - A feed document is the sequence of its <item> elements in document   *)
(*    order (what xpath('//item') returns).                                *)
(***************************************************************************)
EXTENDS Integers, Sequences, FiniteSets, TLC

VARIABLES
    cached_feeds,   \* PodcastRSSParser._cached_feeds: show name -> parsed document
    source,         \* what a fetch of each configured feed would return now
    result,         \* the last call: its arguments and what it returned or raised
    fetched,        \* the shows whose feed the last call fetched, in call order
    calls           \* the _get_feed calls of concurrent callers: position and locals

vars == <<cached_feeds, source, result, fetched, calls>>

-----------------------------------------------------------------------------
(* Bounds of the model.                                                    *)

\* Longest feed document (number of items) drawn in QuerySpec.
MaxItems == 2

\* Longest feed document drawn in PageSpec.
MaxTotal == 12

\* Largest per_page drawn in PageSpec.
MaxPerPage == 6

\* Largest page drawn in PageSpec.
MaxPage == 4

\* Number of concurrent callers of _get_feed in ConcSpec.
MaxCallers == 2

-----------------------------------------------------------------------------
(* Generic helpers.                                                        *)

Range(s) == {s[i] : i \in 1..Len(s)}

Min(a, b) == IF a <= b THEN a ELSE b

Max(a, b) == IF a >= b THEN a ELSE b

RECURSIVE SeqsOfLen(_, _)
SeqsOfLen(S, n) ==
    IF n = 0 THEN {<<>>}
    ELSE {Append(s, x) : s \in SeqsOfLen(S, n - 1), x \in S}

SeqsUpTo(S, n) == UNION {SeqsOfLen(S, k) : k \in 0..n}

-----------------------------------------------------------------------------
(* Text: str.lower(), str.strip(), `needle in haystack`.                   *)

LowerChar(c) ==
    CASE c = "W" -> "w"
      [] c = "T" -> "t"
      [] c = "E" -> "e"
      [] c = "S" -> "s"
      [] c = "X" -> "x"
      [] c = "C" -> "c"
      [] c = "H" -> "h"
      [] c = "R" -> "r"
      [] c = "I" -> "i"
      [] OTHER -> c

Lower(s) == [i \in 1..Len(s) |-> LowerChar(s[i])]

IsSpace(c) == c \in {" ", "\t", "\n"}

RECURSIVE LStrip(_)
LStrip(s) ==
    IF s # <<>> /\ IsSpace(Head(s)) THEN LStrip(Tail(s)) ELSE s

RECURSIVE RStrip(_)
RStrip(s) ==
    IF s # <<>> /\ IsSpace(s[Len(s)]) THEN RStrip(SubSeq(s, 1, Len(s) - 1)) ELSE s

Strip(s) == RStrip(LStrip(s))

\* Python's `needle in haystack` on str.
Contains(haystack, needle) ==
    \E i \in 0..(Len(haystack) - Len(needle)) :
        SubSeq(haystack, i + 1, i + Len(needle)) = needle

-----------------------------------------------------------------------------
(* Date strings and PodcastRSSParser._parse_date.                          *)

\* The layouts the format list of _parse_date reads, in its priority order.
Formats ==
    << "rfc2822_offset",   \* "%a, %d %b %Y %H:%M:%S %z"
       "rfc2822_zone",     \* "%a, %d %b %Y %H:%M:%S %Z"
       "rfc2822",          \* "%a, %d %b %Y %H:%M:%S"
       "iso_offset",       \* "%Y-%m-%dT%H:%M:%S%z"
       "iso_z",            \* "%Y-%m-%dT%H:%M:%SZ"
       "iso",              \* "%Y-%m-%dT%H:%M:%S"
       "iso_space",        \* "%Y-%m-%d %H:%M:%S"
       "iso_date",         \* "%Y-%m-%d"
       "dmy_offset",       \* "%d %b %Y %H:%M:%S %z"
       "dmy" >>            \* "%d %b %Y"

\* A date string.  layout: one of Formats, or "" (the empty string), "blank"
\* (whitespace only), "garbage" (no date in it), "embedded_dmy" (free text
\* holding "<day> <Mon> <year>").  offset: minutes east of UTC; colon: the
\* offset is written "-07:00" rather than "-0700"; zone: a zone name.
DateStr(layout, y, mo, d, h, mi, s, off, colon, zone) ==
    [layout |-> layout, year |-> y, month |-> mo, day |-> d, hour |-> h,
     minute |-> mi, second |-> s, offset |-> off, colon |-> colon, zone |-> zone]

EmptyDate == DateStr("", 0, 0, 0, 0, 0, 0, 0, FALSE, "")

BlankDate == DateStr("blank", 0, 0, 0, 0, 0, 0, 0, FALSE, "")

GarbageDate == DateStr("garbage", 0, 0, 0, 0, 0, 0, 0, FALSE, "")

IsoDate(y, mo, d) == DateStr("iso_date", y, mo, d, 0, 0, 0, 0, FALSE, "")

HasOffset(ds) == ds.layout \in {"rfc2822_offset", "iso_offset", "dmy_offset"}

\* rss_parser.py:43-44: a trailing "-0700" is rewritten to "-07:00".
RewriteOffset(ds) ==
    IF HasOffset(ds) /\ ~ds.colon THEN [ds EXCEPT !.colon = TRUE] ELSE ds

IsLeap(y) == (y % 4 = 0 /\ y % 100 # 0) \/ y % 400 = 0

DaysInMonth(y, mo) ==
    CASE mo \in {1, 3, 5, 7, 8, 10, 12} -> 31
      [] mo \in {4, 6, 9, 11} -> 30
      [] mo = 2 -> IF IsLeap(y) THEN 29 ELSE 28
      [] OTHER -> 0

\* What datetime() and strptime accept as a calendar date and time of day.
ValidDate(y, mo, d) ==
    y \in 1..9999 /\ mo \in 1..12 /\ d \in 1..DaysInMonth(y, mo)

ValidTime(h, mi, s) == h \in 0..23 /\ mi \in 0..59 /\ s \in 0..59

\* The zone names strptime's %Z accepts whatever the machine's zone.
KnownZones == {"UTC", "GMT"}

\* datetime.strptime(date_string, fmt) succeeds.  A trailing "Z" is also read
\* by %z (Python 3.7 and later), so the Zulu layout matches "iso_offset".
StrptimeOk(ds, fmt) ==
    /\ \/ ds.layout = fmt
       \/ ds.layout = "iso_z" /\ fmt = "iso_offset"
    /\ ValidDate(ds.year, ds.month, ds.day)
    /\ ValidTime(ds.hour, ds.minute, ds.second)
    /\ fmt = "rfc2822_zone" => ds.zone \in KnownZones

\* The first format of the list that reads the string, 0 when none does.
RECURSIVE FirstFormatFrom(_, _)
FirstFormatFrom(ds, i) ==
    IF i > Len(Formats) THEN 0
    ELSE IF StrptimeOk(ds, Formats[i]) THEN i
    ELSE FirstFormatFrom(ds, i + 1)

\* Days from 1970-01-01 to the civil date (proleptic Gregorian calendar).
DaysFromCivil(y, mo, d) ==
    LET yy  == IF mo <= 2 THEN y - 1 ELSE y
        era == yy \div 400
        yoe == yy - era * 400
        mp  == (mo + 9) % 12
        doy == (153 * mp + 2) \div 5 + d - 1
        doe == yoe * 365 + yoe \div 4 - yoe \div 100 + doy
    IN  era * 146097 + doe - 719468

\* A parsed datetime: none = TRUE is Python's None; otherwise the wall clock
\* fields, whether it carries tzinfo, and its utc offset in minutes.
NoDateTime ==
    [none |-> TRUE, year |-> 0, month |-> 0, day |-> 0, hour |-> 0,
     minute |-> 0, second |-> 0, aware |-> FALSE, offset |-> 0]

DateTime(y, mo, d, h, mi, s, aware, off) ==
    [none |-> FALSE, year |-> y, month |-> mo, day |-> d, hour |-> h,
     minute |-> mi, second |-> s, aware |-> aware, offset |-> off]

\* The datetime strptime builds for the format that matched.
Strptime(ds, fmt) ==
    IF fmt \in {"rfc2822_offset", "iso_offset", "dmy_offset"}
    THEN DateTime(ds.year, ds.month, ds.day, ds.hour, ds.minute, ds.second,
                  TRUE, ds.offset)
    ELSE DateTime(ds.year, ds.month, ds.day, ds.hour, ds.minute, ds.second,
                  FALSE, 0)

\* rss_parser.py:55-67: the "<day> <Mon> <year>" fallback.  It finds the
\* pattern in every text that holds a date written that way, which the
\* rfc2822 and dmy layouts do.
FallbackDate(ds) ==
    IF /\ ds.layout \in {"embedded_dmy", "rfc2822_offset", "rfc2822_zone",
                         "rfc2822", "dmy_offset", "dmy"}
       /\ ds.month \in 1..12
       /\ ValidDate(ds.year, ds.month, ds.day)
    THEN DateTime(ds.year, ds.month, ds.day, 0, 0, 0, FALSE, 0)
    ELSE NoDateTime

\* rss_parser.py:75-76: a naive datetime is taken to be UTC.
AssumeUtc(dt) ==
    IF dt.none \/ dt.aware THEN dt ELSE [dt EXCEPT !.aware = TRUE, !.offset = 0]

\* PodcastRSSParser._parse_date.
ParseDate(date_string) ==
    IF date_string.layout = "" THEN NoDateTime
    ELSE LET ds == RewriteOffset(date_string)
             f  == FirstFormatFrom(ds, 1)
             dt == IF f # 0 THEN Strptime(ds, Formats[f]) ELSE FallbackDate(ds)
         IN  AssumeUtc(dt)

\* The instant of an aware datetime, in seconds since 1970-01-01T00:00:00Z:
\* the order Python compares aware datetimes by.
Instant(dt) ==
    DaysFromCivil(dt.year, dt.month, dt.day) * 86400
      + dt.hour * 3600 + dt.minute * 60 + dt.second - dt.offset * 60

\* Mutant of DtLess: the bound itself counts as beyond the bound.
DtLessOrEqual(dt1, dt2) == Instant(dt1) <= Instant(dt2)

\* dt1 < dt2 on two aware datetimes.
DtLess(dt1, dt2) == Instant(dt1) < Instant(dt2)

-----------------------------------------------------------------------------
(* The configured feeds.                                                   *)

\* The keys of the feeds dict handed to the constructor, in insertion order
\* (two of the shows the servers configure).
Feeds == <<"Linux Unplugged", "Self-Hosted">>

FeedNames == Range(Feeds)

\* A show name that is no key of the feeds dict.
UnknownShow == "Invalid Show"

\* PodcastRSSParser.get_shows.
GetShows == Feeds

-----------------------------------------------------------------------------
(* XML items and PodcastRSSParser._parse_episode.                          *)

Absent(default) == [st |-> "absent", text |-> default]

EmptyElem(default) == [st |-> "empty", text |-> default]

Text(t) == [st |-> "text", text |-> t]

\* A Python value that may be None.
PyNone(default) == [none |-> TRUE, v |-> default]

PyVal(x) == [none |-> FALSE, v |-> x]

\* _parse_episode's get_text: "" for a missing element, else element.text
\* (None for an element without text).
GetText(element, empty) ==
    CASE element.st = "absent" -> PyVal(empty)
      [] element.st = "empty"  -> PyNone(empty)
      [] OTHER                 -> PyVal(element.text)

\* _parse_episode's get_cdata_content: the stripped text, "" without text.
GetCdataContent(element) ==
    IF element.st = "text" THEN Strip(element.text) ELSE <<>>

\* Python truthiness of a str-or-None.
Truthy(x, empty) == ~x.none /\ x.v # empty

\* Python's `a or b`.
PyOr(a, b, empty) == IF Truthy(a, empty) THEN a ELSE b

\* rss_parser.py:268-274: the names of the persons with role "host" and a
\* non-empty text, stripped, in document order.
RECURSIVE HostsOf(_)
HostsOf(persons) ==
    IF persons = <<>> THEN <<>>
    ELSE LET p == Head(persons)
         IN  IF p.role = "host" /\ p.name.st = "text" /\ p.name.text # <<>>
             THEN <<Strip(p.name.text)>> \o HostsOf(Tail(persons))
             ELSE HostsOf(Tail(persons))

\* rss_parser.py:277-286: the urls of the transcript elements that have one.
RECURSIVE TranscriptUrls(_)
TranscriptUrls(transcripts) ==
    IF transcripts = <<>> THEN <<>>
    ELSE IF Head(transcripts) # ""
         THEN <<Head(transcripts)>> \o TranscriptUrls(Tail(transcripts))
         ELSE TranscriptUrls(Tail(transcripts))

\* PodcastRSSParser._parse_episode (link, duration, enclosures and chapters
\* are read by no operation and are left out).  transcript_url "" is None.
ParseEpisode(show_name, item) ==
    LET urls == TranscriptUrls(item.transcripts)
    IN  [show_name       |-> show_name,
         id              |-> PyOr(GetText(item.guid, ""), GetText(item.episode, ""), ""),
         episode_number  |-> GetText(item.episode, ""),
         title           |-> GetText(item.title, <<>>),
         description     |-> GetCdataContent(item.description),
         published_date  |-> GetText(item.pubDate, EmptyDate),
         hosts           |-> HostsOf(item.persons),
         transcript_urls |-> urls,
         transcript_url  |-> IF urls # <<>> THEN urls[1] ELSE ""]

-----------------------------------------------------------------------------
(* The feed cache: PodcastRSSParser._get_feed.                             *)

\* What fetching and parsing a feed yields: a document, or an exception of
\* the fetch (open, requests.get, raise_for_status) or of etree.fromstring.
FetchError == [kind |-> "fetch_error", items |-> <<>>]

Malformed == [kind |-> "malformed", items |-> <<>>]

Doc(items) == [kind |-> "doc", items |-> items]

\* _get_feed's return value: ok = FALSE is None.
NoFeed == [ok |-> FALSE, items |-> <<>>]

Feed(items) == [ok |-> TRUE, items |-> items]

CachePut(cache, show_name, items) ==
    [s \in DOMAIN cache \cup {show_name} |->
        IF s = show_name THEN items ELSE cache[s]]

\* Mutant of GetFeed: the cache is not consulted, every lookup fetches.
GetFeedAlwaysFetch(cache, src, show_name) ==
    IF show_name \notin FeedNames
    THEN [cache |-> cache, feed |-> NoFeed, fetched |-> <<>>]
    ELSE IF src[show_name].kind = "doc"
    THEN [cache   |-> CachePut(cache, show_name, src[show_name].items),
          feed    |-> Feed(src[show_name].items),
          fetched |-> <<show_name>>]
    ELSE [cache |-> cache, feed |-> NoFeed, fetched |-> <<show_name>>]

\* Mutant of GetFeed: a failed fetch leaves an (empty) entry in the cache.
GetFeedCacheFailure(cache, src, show_name) ==
    IF show_name \notin FeedNames
    THEN [cache |-> cache, feed |-> NoFeed, fetched |-> <<>>]
    ELSE IF show_name \notin DOMAIN cache
    THEN IF src[show_name].kind = "doc"
         THEN [cache   |-> CachePut(cache, show_name, src[show_name].items),
               feed    |-> Feed(src[show_name].items),
               fetched |-> <<show_name>>]
         ELSE [cache   |-> CachePut(cache, show_name, <<>>),
               feed    |-> NoFeed,
               fetched |-> <<show_name>>]
    ELSE [cache |-> cache, feed |-> Feed(cache[show_name]), fetched |-> <<>>]

\* Mutant of GetFeed: an unknown show gets a cache entry too.
GetFeedUnknownCached(cache, src, show_name) ==
    IF show_name \notin DOMAIN cache
    THEN IF show_name \in FeedNames /\ src[show_name].kind = "doc"
         THEN [cache   |-> CachePut(cache, show_name, src[show_name].items),
               feed    |-> Feed(src[show_name].items),
               fetched |-> <<show_name>>]
         ELSE IF show_name \in FeedNames
         THEN [cache |-> cache, feed |-> NoFeed, fetched |-> <<show_name>>]
         ELSE [cache   |-> CachePut(cache, show_name, <<>>),
               feed    |-> NoFeed,
               fetched |-> <<>>]
    ELSE [cache |-> cache, feed |-> Feed(cache[show_name]), fetched |-> <<>>]

\* PodcastRSSParser._get_feed on the cache `cache`, when a fetch of each feed
\* would yield src[show].  Returns the cache afterwards, the return value and
\* the shows fetched (none or show_name).
GetFeed(cache, src, show_name) ==
    IF show_name \notin FeedNames
    THEN [cache |-> cache, feed |-> NoFeed, fetched |-> <<>>]
    ELSE IF show_name \notin DOMAIN cache
    THEN IF src[show_name].kind = "doc"
         THEN [cache   |-> CachePut(cache, show_name, src[show_name].items),
               feed    |-> Feed(src[show_name].items),
               fetched |-> <<show_name>>]
         ELSE [cache |-> cache, feed |-> NoFeed, fetched |-> <<show_name>>]
    ELSE [cache |-> cache, feed |-> Feed(cache[show_name]), fetched |-> <<>>]

-----------------------------------------------------------------------------
(* The query engine: PodcastRSSParser.search_episodes.                     *)

\* The arguments of search_episodes; "" / EmptyDate / <<>> is None (or empty).
SearchArgs(show_name, since_date, before_date, hosts, text_search) ==
    [show_name |-> show_name, since_date |-> since_date,
     before_date |-> before_date, hosts |-> hosts, text_search |-> text_search]

\* Mutant of AnyParameter: the precondition is not checked.
AnyParameterUnchecked(a) == TRUE

\* rss_parser.py:123: any([show_name, since_date, before_date, hosts, text_search]).
AnyParameter(a) ==
    \/ a.show_name # ""
    \/ a.since_date # EmptyDate
    \/ a.before_date # EmptyDate
    \/ a.hosts # <<>>
    \/ a.text_search # <<>>

\* Mutant of SinceDrops: an episode whose date does not parse is dropped too.
SinceDropsStrict(since_dt, ep) ==
    /\ ~since_dt.none
    /\ \/ ~Truthy(ep.published_date, EmptyDate)
       \/ LET episode_dt == ParseDate(ep.published_date.v)
          IN  episode_dt.none \/ DtLess(episode_dt, since_dt)

\* rss_parser.py:150-153: the since filter drops the episode.
SinceDrops(since_dt, ep) ==
    /\ ~since_dt.none
    /\ Truthy(ep.published_date, EmptyDate)
    /\ LET episode_dt == ParseDate(ep.published_date.v)
       IN  ~episode_dt.none /\ DtLess(episode_dt, since_dt)

\* rss_parser.py:155-158: the before filter drops the episode.
BeforeDrops(before_dt, ep) ==
    /\ ~before_dt.none
    /\ Truthy(ep.published_date, EmptyDate)
    /\ LET episode_dt == ParseDate(ep.published_date.v)
       IN  ~episode_dt.none /\ DtLess(before_dt, episode_dt)

\* rss_parser.py:160-163: the hosts filter drops the episode.
HostsDrop(hosts, ep) ==
    /\ hosts # <<>>
    /\ ~\E i \in 1..Len(hosts) :
          Lower(hosts[i]) \in {Lower(ep.hosts[j]) : j \in 1..Len(ep.hosts)}

\* rss_parser.py:165-170: the text filter; title None has no lower().
TextOutcome(text_search, ep) ==
    IF text_search = <<>> THEN "keep"
    ELSE IF ep.title.none THEN "raise"
    ELSE LET search_text == Lower(text_search)
         IN  IF ~Contains(Lower(ep.title.v), search_text)
                /\ ~Contains(Lower(ep.description), search_text)
             THEN "skip" ELSE "keep"

\* The filters of the loop body, in the code's order: "keep", "skip"
\* (continue) or "raise" (AttributeError).
KeepEpisode(ep, since_dt, before_dt, hosts, text_search) ==
    IF SinceDrops(since_dt, ep) THEN "skip"
    ELSE IF BeforeDrops(before_dt, ep) THEN "skip"
    ELSE IF HostsDrop(hosts, ep) THEN "skip"
    ELSE TextOutcome(text_search, ep)

\* Mutant of SearchItems: a kept episode is put in front of the results.
RECURSIVE SearchItemsPrepend(_, _, _, _, _, _, _, _)
SearchItemsPrepend(show, items, i, since_dt, before_dt, hosts, text_search, acc) ==
    IF acc.raised # "" \/ i > Len(items) THEN acc
    ELSE LET episode_data == ParseEpisode(show, items[i])
             k == KeepEpisode(episode_data, since_dt, before_dt, hosts, text_search)
         IN  SearchItemsPrepend(show, items, i + 1, since_dt, before_dt, hosts,
                 text_search,
                 CASE k = "keep"  -> [acc EXCEPT !.results = <<episode_data>> \o @]
                   [] k = "raise" -> [acc EXCEPT !.raised = "AttributeError"]
                   [] OTHER       -> acc)

\* rss_parser.py:146-172: the loop over one feed's items, appending to the
\* results so far.
RECURSIVE SearchItems(_, _, _, _, _, _, _, _)
SearchItems(show, items, i, since_dt, before_dt, hosts, text_search, acc) ==
    IF acc.raised # "" \/ i > Len(items) THEN acc
    ELSE LET episode_data == ParseEpisode(show, items[i])
             k == KeepEpisode(episode_data, since_dt, before_dt, hosts, text_search)
         IN  SearchItems(show, items, i + 1, since_dt, before_dt, hosts, text_search,
                 CASE k = "keep"  -> [acc EXCEPT !.results = Append(@, episode_data)]
                   [] k = "raise" -> [acc EXCEPT !.raised = "AttributeError"]
                   [] OTHER       -> acc)

\* Mutant of SearchShows: a show whose feed is None ends the loop (break
\* for continue).
RECURSIVE SearchShowsBreak(_, _, _, _, _, _, _, _)
SearchShowsBreak(src, shows_to_search, n, since_dt, before_dt, hosts, text_search, acc) ==
    IF acc.raised # "" \/ n > Len(shows_to_search) THEN acc
    ELSE LET show == shows_to_search[n]
             g    == GetFeed(acc.cache, src, show)
             acc1 == [acc EXCEPT !.cache = g.cache, !.fetched = @ \o g.fetched]
         IN  IF ~g.feed.ok THEN acc1
             ELSE SearchShowsBreak(src, shows_to_search, n + 1, since_dt, before_dt,
                      hosts, text_search,
                      SearchItems(show, g.feed.items, 1, since_dt, before_dt,
                                  hosts, text_search, acc1))

\* rss_parser.py:139-172: the loop over the shows to search.
RECURSIVE SearchShows(_, _, _, _, _, _, _, _)
SearchShows(src, shows_to_search, n, since_dt, before_dt, hosts, text_search, acc) ==
    IF acc.raised # "" \/ n > Len(shows_to_search) THEN acc
    ELSE LET show == shows_to_search[n]
             g    == GetFeed(acc.cache, src, show)
             acc1 == [acc EXCEPT !.cache = g.cache, !.fetched = @ \o g.fetched]
         IN  SearchShows(src, shows_to_search, n + 1, since_dt, before_dt, hosts,
                 text_search,
                 IF ~g.feed.ok THEN acc1
                 ELSE SearchItems(show, g.feed.items, 1, since_dt, before_dt,
                                  hosts, text_search, acc1))

\* PodcastRSSParser.search_episodes: what it raises ("" when it returns), the
\* list it returns, the cache afterwards and the feeds it fetched.
SearchEpisodes(cache, src, a) ==
    IF ~AnyParameter(a)
    THEN [raised |-> "ValueError", results |-> <<>>, cache |-> cache, fetched |-> <<>>]
    ELSE LET shows_to_search == IF a.show_name # "" THEN <<a.show_name>> ELSE GetShows
             since_dt  == IF a.since_date # EmptyDate
                          THEN ParseDate(a.since_date) ELSE NoDateTime
             before_dt == IF a.before_date # EmptyDate
                          THEN ParseDate(a.before_date) ELSE NoDateTime
         IN  SearchShows(src, shows_to_search, 1, since_dt, before_dt, a.hosts,
                 a.text_search,
                 [raised |-> "", results |-> <<>>, cache |-> cache, fetched |-> <<>>])

-----------------------------------------------------------------------------
(* Episode and transcript lookup.                                          *)

\* rss_parser.py:184-193: the item matches by its guid text or by its
\* podcast:episode text.
ItemMatches(item, episode_number) ==
    \/ item.guid.st = "text" /\ item.guid.text = episode_number
    \/ item.episode.st = "text" /\ item.episode.text = episode_number

\* Mutant of FirstMatchFrom: an item matching by guid anywhere in the
\* document is preferred to one matching by episode number.
GuidFirstMatch(items, i, episode_number) ==
    LET byGuid == {j \in i..Len(items) :
                      items[j].guid.st = "text" /\ items[j].guid.text = episode_number}
        any    == {j \in i..Len(items) : ItemMatches(items[j], episode_number)}
    IN  IF byGuid # {} THEN CHOOSE j \in byGuid : \A k \in byGuid : j <= k
        ELSE IF any # {} THEN CHOOSE j \in any : \A k \in any : j <= k
        ELSE 0

\* The index of the first matching item from i on, 0 when there is none.
RECURSIVE FirstMatchFrom(_, _, _)
FirstMatchFrom(items, i, episode_number) ==
    IF i > Len(items) THEN 0
    ELSE IF ItemMatches(items[i], episode_number) THEN i
    ELSE FirstMatchFrom(items, i + 1, episode_number)

\* PodcastRSSParser.get_episode: episode is <<>> for the return value None,
\* else the one episode dict returned.
GetEpisode(cache, src, show_name, episode_number) ==
    LET g == GetFeed(cache, src, show_name)
        i == IF g.feed.ok THEN FirstMatchFrom(g.feed.items, 1, episode_number) ELSE 0
    IN  [episode |-> IF i # 0 THEN <<ParseEpisode(show_name, g.feed.items[i])>>
                     ELSE <<>>,
         cache   |-> g.cache,
         fetched |-> g.fetched]

\* The body an HTTP GET of a transcript url returns.
TranscriptText(url) == <<"transcript at", url>>

\* PodcastRSSParser.get_transcript; http_ok: the GET of the transcript url
\* succeeds.  transcript <<>> is the return value None; requested is the url
\* the call sent a GET to ("" when it sent none).
GetTranscript(cache, src, show_name, episode_number, http_ok) ==
    LET e   == GetEpisode(cache, src, show_name, episode_number)
        url == IF e.episode # <<>> THEN e.episode[1].transcript_url ELSE ""
    IN  [transcript |-> IF url # "" /\ http_ok THEN TranscriptText(url) ELSE <<>>,
         requested  |-> url,
         cache      |-> e.cache,
         fetched    |-> e.fetched]

-----------------------------------------------------------------------------
(* The paginated search tool: podcast_mcp/server.py search_episodes.       *)

\* Python's seq[start:end].
PySlice(seq, start, end) ==
    LET n  == Len(seq)
        lo == IF start < 0 THEN Max(start + n, 0) ELSE Min(start, n)
        hi == IF end < 0 THEN Max(end + n, 0) ELSE Min(end, n)
    IN  SubSeq(seq, lo + 1, hi)

\* Mutant of TotalPages: the division rounds down.
TotalPagesFloor(total, per_page) ==
    IF per_page > 0 THEN total \div per_page ELSE 0

\* server.py:69: (total + per_page - 1) // per_page if per_page > 0 else 0.
TotalPages(total, per_page) ==
    IF per_page > 0 THEN (total + per_page - 1) \div per_page ELSE 0

\* server.py:59-85: the tool's return value, with the parser's effects.
\* error "" is the paginated answer; otherwise the {"error": ...} answer.
SearchTool(cache, src, a, page, per_page) ==
    LET r         == SearchEpisodes(cache, src, a)
        total     == Len(r.results)
        start_idx == (page - 1) * per_page
        end_idx   == start_idx + per_page
    IN  IF r.raised # ""
        THEN [error |-> IF r.raised = "ValueError" THEN "ValueError"
                        ELSE "Search failed",
              episodes |-> <<>>, total |-> 0, total_pages |-> 0,
              cache |-> r.cache, fetched |-> r.fetched]
        ELSE [error |-> "",
              episodes |-> PySlice(r.results, start_idx, end_idx),
              total |-> total, total_pages |-> TotalPages(total, per_page),
              cache |-> r.cache, fetched |-> r.fetched]

-----------------------------------------------------------------------------
(* Inputs: the items, documents and arguments the specifications draw.     *)

Item(guid, episode, title, description, pubDate, persons, transcripts) ==
    [guid |-> guid, episode |-> episode, title |-> title,
     description |-> description, pubDate |-> pubDate, persons |-> persons,
     transcripts |-> transcripts]

Person(role, name) == [role |-> role, name |-> name]

\* "Sun, 05 Oct 2025 19:25:37 -0700" (tests/test_dates.py).
RfcExample == DateStr("rfc2822_offset", 2025, 10, 5, 19, 25, 37, -420, FALSE, "")

\* "2025-10-01".
Oct1 == IsoDate(2025, 10, 1)

\* "2025-10-01T00:00:00Z": the instant of Oct1 in another layout.
Oct1Zulu == DateStr("iso_z", 2025, 10, 1, 0, 0, 0, 0, FALSE, "")

\* guid 100, episode 5, dated RfcExample, host " wes ", a transcript element
\* without url and one with.
ItemTexas ==
    Item(Text("100"), Text("5"), Text(<<"T", "e", "x", "a", "s">>),
         Text(<<" ", "f", "e", "s", "t", " ">>), Text(RfcExample),
         <<Person("guest", Text(<<"A", "l">>)),
           Person("host", Text(<<" ", "w", "e", "s", " ">>))>>,
         <<"", "t5.srt">>)

\* guid 5 (the episode number of ItemTexas), no episode number, a date that
\* no layout reads, host "Chris".
ItemGuid5 ==
    Item(Text("5"), Absent(""), Text(<<"N", "i", "x">>), EmptyElem(<<>>),
         Text(GarbageDate),
         <<Person("host", Text(<<"C", "h", "r", "i", "s">>))>>, <<>>)

\* No guid, episode 7, dated 2025-09-30, host "Wes", title "LaTeX".
ItemOld ==
    Item(Absent(""), Text("7"), Text(<<"L", "a", "T", "e", "X">>),
         Text(<<"o", "l", "d">>), Text(IsoDate(2025, 9, 30)),
         <<Person("host", Text(<<"W", "e", "s">>))>>, <<"t7.vtt">>)

\* guid 101, episode 8, dated exactly 2025-10-01T00:00:00Z, no host; the
\* description holds "tEx".
ItemEdge ==
    Item(Text("101"), Text("8"), Text(<<"E", "d", "g", "e">>),
         Text(<<"a", "t", "E", "x">>), Text(Oct1Zulu),
         <<Person("host", EmptyElem(<<>>))>>, <<>>)

\* guid 102, episode 7, no pubDate element, host "WES".
ItemNoDate ==
    Item(Text("102"), Text("7"), Text(<<"B", "o", "n", "u", "s">>),
         Absent(<<>>), Absent(EmptyDate),
         <<Person("host", Text(<<"W", "E", "S">>))>>, <<>>)

\* guid 103, episode 9, a title element without text (<title/>: its .text is
\* None), dated 2025-10-05, host "Wes"; the description holds "tex".
ItemNoTitle ==
    Item(Text("103"), Text("9"), EmptyElem(<<>>),
         Text(<<"t", "e", "x", "t">>), Text(IsoDate(2025, 10, 5)),
         <<Person("host", Text(<<"W", "e", "s">>))>>, <<>>)

ItemPool == {ItemTexas, ItemGuid5, ItemOld, ItemEdge, ItemNoDate, ItemNoTitle}

\* What the first configured feed may hold in QuerySpec.
FirstOutcomes ==
    {FetchError} \cup {Doc(d) : d \in SeqsUpTo(ItemPool, MaxItems)}

\* What the second configured feed may hold in QuerySpec.
SecondOutcomes ==
    {Malformed, Doc(<<ItemEdge>>), Doc(<<ItemTexas, ItemOld>>),
     Doc(<<ItemNoTitle, ItemEdge>>)}

\* What either feed may hold in Spec.
SpecOutcomes ==
    {FetchError, Malformed, Doc(<<ItemTexas, ItemGuid5>>), Doc(<<ItemOld>>)}

Wes == <<"W", "e", "s">>

Tex == <<"t", "e", "x">>

ShowArgs == {""} \cup FeedNames \cup {UnknownShow}

\* The search arguments drawn in Spec.
SpecArgs ==
    {SearchArgs(sh, si, EmptyDate, h, <<>>) :
        sh \in ShowArgs, si \in {EmptyDate, Oct1}, h \in {<<>>, <<Wes>>}}

\* The search arguments drawn in QuerySpec.
QueryArgs ==
    {SearchArgs(sh, si, be, h, t) :
        sh \in ShowArgs, si \in {EmptyDate, Oct1, GarbageDate, BlankDate},
        be \in {EmptyDate, Oct1, GarbageDate}, h \in {<<>>, <<Wes>>},
        t \in {<<>>, Tex}}

\* The episode numbers asked for.
EpisodeNumbers == {"5", "7", "nope"}

\* The i-th item of a PageSpec document: guid i, dated 2025-10-05 when i is
\* odd and 2025-09-30 when even.
PageItem(i) ==
    Item(Text(ToString(i)), Absent(""), Text(<<"e", "p">>), Absent(<<>>),
         Text(IF i % 2 = 1 THEN IsoDate(2025, 10, 5) ELSE IsoDate(2025, 9, 30)),
         <<>>, <<>>)

PageDoc(n) == [i \in 1..n |-> PageItem(i)]

-----------------------------------------------------------------------------
(* State and actions.                                                      *)

\* The record kept of the last call.
NoResult ==
    [op |-> "none", args |-> SearchArgs("", EmptyDate, EmptyDate, <<>>, <<>>),
     episode_number |-> "", page |-> 0, per_page |-> 0, raised |-> "",
     episodes |-> <<>>, transcript |-> <<>>, requested |-> "",
     total |-> 0, total_pages |-> 0]

\* The callers of ConcSpec.
Callers == 1..MaxCallers

\* A caller that has not called _get_feed yet.  pc is the line of _get_feed
\* the call is at; show_name, content and root are its locals; feed is what
\* it returned.
IdleCall ==
    [pc |-> "idle", show_name |-> "", content |-> FetchError, root |-> <<>>,
     feed |-> NoFeed]

\* PodcastRSSParser.__init__: the cache starts empty; no call made yet.
Fresh ==
    /\ cached_feeds = <<>>
    /\ result = NoResult
    /\ fetched = <<>>
    /\ calls = [t \in Callers |-> IdleCall]

Init ==
    /\ Fresh
    /\ source \in [FeedNames -> SpecOutcomes]

\* The sources each feed is fetched from change (outside the program).
SourceChange(show, outcome) ==
    /\ source[show] # outcome
    /\ source' = [source EXCEPT ![show] = outcome]
    /\ fetched' = <<>>
    /\ UNCHANGED <<cached_feeds, result, calls>>

\* A call of parser.search_episodes(**a).
CallSearchEpisodes(a) ==
    LET r == SearchEpisodes(cached_feeds, source, a)
    IN  /\ cached_feeds' = r.cache
        /\ fetched' = r.fetched
        /\ result' = [NoResult EXCEPT !.op = "search_episodes", !.args = a,
                          !.raised = r.raised, !.episodes = r.results]
        /\ UNCHANGED <<source, calls>>

\* A call of parser.get_episode(show_name, episode_number).
CallGetEpisode(show_name, episode_number) ==
    LET r == GetEpisode(cached_feeds, source, show_name, episode_number)
    IN  /\ cached_feeds' = r.cache
        /\ fetched' = r.fetched
        /\ result' = [NoResult EXCEPT !.op = "get_episode",
                          !.args.show_name = show_name,
                          !.episode_number = episode_number,
                          !.episodes = r.episode]
        /\ UNCHANGED <<source, calls>>

\* A call of parser.get_transcript(show_name, episode_number).
CallGetTranscript(show_name, episode_number, http_ok) ==
    LET r == GetTranscript(cached_feeds, source, show_name, episode_number, http_ok)
    IN  /\ cached_feeds' = r.cache
        /\ fetched' = r.fetched
        /\ result' = [NoResult EXCEPT !.op = "get_transcript",
                          !.args.show_name = show_name,
                          !.episode_number = episode_number,
                          !.transcript = r.transcript,
                          !.requested = r.requested]
        /\ UNCHANGED <<source, calls>>

\* A call of the search_episodes tool of podcast_mcp/server.py.
CallSearchTool(a, page, per_page) ==
    LET r == SearchTool(cached_feeds, source, a, page, per_page)
    IN  /\ cached_feeds' = r.cache
        /\ fetched' = r.fetched
        /\ result' = [NoResult EXCEPT !.op = "search_tool", !.args = a,
                          !.page = page, !.per_page = per_page,
                          !.raised = r.error, !.episodes = r.episodes,
                          !.total = r.total, !.total_pages = r.total_pages]
        /\ UNCHANGED <<source, calls>>

\* The parser under changing sources.
Next ==
    \/ \E show \in FeedNames, outcome \in SpecOutcomes : SourceChange(show, outcome)
    \/ \E a \in SpecArgs : CallSearchEpisodes(a)
    \/ \E sh \in FeedNames \cup {UnknownShow}, q \in {"5", "nope"} :
          CallGetEpisode(sh, q)
    \/ \E sh \in FeedNames \cup {UnknownShow}, q \in {"5", "nope"}, ok \in BOOLEAN :
          CallGetTranscript(sh, q, ok)

Spec == Init /\ [][Next]_vars

\* One call on a fresh parser, over richer documents and arguments.
QueryInit ==
    /\ Fresh
    /\ source \in {[s \in FeedNames |-> IF s = Feeds[1] THEN o1 ELSE o2] :
                      o1 \in FirstOutcomes, o2 \in SecondOutcomes}

QueryNext ==
    /\ result.op = "none"
    /\ \/ \E a \in QueryArgs : CallSearchEpisodes(a)
       \/ \E sh \in {Feeds[1], UnknownShow}, q \in EpisodeNumbers :
             CallGetEpisode(sh, q)
       \/ \E sh \in {Feeds[1]}, q \in EpisodeNumbers, ok \in BOOLEAN :
             CallGetTranscript(sh, q, ok)

QuerySpec == QueryInit /\ [][QueryNext]_vars

\* One call of the paginated tool, over documents of up to MaxTotal items.
PageInit ==
    /\ Fresh
    /\ source \in {[s \in FeedNames |->
                       IF s = Feeds[1] THEN Doc(PageDoc(n)) ELSE FetchError] :
                      n \in 0..MaxTotal}

PageNext ==
    /\ result.op = "none"
    /\ \E sh \in {"", Feeds[1]}, si \in {EmptyDate, Oct1},
          page \in -1..MaxPage, per_page \in -1..MaxPerPage :
           CallSearchTool(SearchArgs(sh, si, EmptyDate, <<>>, <<>>), page, per_page)

PageSpec == PageInit /\ [][PageNext]_vars

-----------------------------------------------------------------------------
(* Concurrent callers of PodcastRSSParser._get_feed.  Each caller makes    *)
(* one call, executed line by line; the steps of different callers         *)
(* interleave freely (the code takes no lock).  A local that the rest of   *)
(* the call no longer reads is reset, so that states differ only in what   *)
(* the call can still observe.                                             *)

\* The positions at which a call has begun the fetch of lines 87-102 and has
\* not yet finished line 103.
InFlight == {"fetch", "parse", "store"}

\* The call of show_name has returned feed.
Returns(show_name, feed) ==
    [IdleCall EXCEPT !.pc = "done", !.show_name = show_name, !.feed = feed]

\* rss_parser.py:80-83: the call is made; an unknown show returns None.
Enter(t, show_name) ==
    /\ calls[t].pc = "idle"
    /\ calls' = [calls EXCEPT ![t] =
                    IF show_name \notin FeedNames
                    THEN Returns(show_name, NoFeed)
                    ELSE [IdleCall EXCEPT !.pc = "check", !.show_name = show_name]]
    /\ UNCHANGED <<cached_feeds, source, result, fetched>>

\* rss_parser.py:85: `if show_name not in self._cached_feeds`.
CheckCache(t) ==
    /\ calls[t].pc = "check"
    /\ calls' = [calls EXCEPT ![t].pc =
                    IF calls[t].show_name \notin DOMAIN cached_feeds
                    THEN "fetch" ELSE "return"]
    /\ UNCHANGED <<cached_feeds, source, result, fetched>>

\* rss_parser.py:87-98: the read of the file or the HTTP GET; its exception
\* is caught at line 104 and the call returns None.
FetchContent(t) ==
    /\ calls[t].pc = "fetch"
    /\ LET got == source[calls[t].show_name]
       IN  calls' = [calls EXCEPT ![t] =
                        IF got.kind = "fetch_error"
                        THEN Returns(calls[t].show_name, NoFeed)
                        ELSE [@ EXCEPT !.pc = "parse", !.content = got]]
    /\ UNCHANGED <<cached_feeds, source, result, fetched>>

\* Mutant of ParseContent: the tree is put in the cache slot while it is
\* being built.
ParseContentInPlace(t) ==
    /\ calls[t].pc = "parse"
    /\ LET c == calls[t]
       IN  IF c.content.kind = "malformed"
           THEN /\ calls' = [calls EXCEPT ![t] = Returns(c.show_name, NoFeed)]
                /\ UNCHANGED cached_feeds
           ELSE IF Len(c.root) < Len(c.content.items)
           THEN /\ calls' = [calls EXCEPT ![t].root =
                                Append(@, c.content.items[Len(c.root) + 1])]
                /\ cached_feeds' = CachePut(cached_feeds, c.show_name,
                                        Append(c.root, c.content.items[Len(c.root) + 1]))
           ELSE /\ calls' = [calls EXCEPT ![t].pc = "store"]
                /\ UNCHANGED cached_feeds
    /\ UNCHANGED <<source, result, fetched>>

\* rss_parser.py:101-102: etree.fromstring(content) builds the tree, entry
\* after entry, in the local root; malformed XML raises, the exception is
\* caught at line 104 and the call returns None.
ParseContent(t) ==
    /\ calls[t].pc = "parse"
    /\ LET c == calls[t]
       IN  calls' = [calls EXCEPT ![t] =
                        IF c.content.kind = "malformed"
                        THEN Returns(c.show_name, NoFeed)
                        ELSE IF Len(c.root) < Len(c.content.items)
                        THEN [c EXCEPT !.root =
                                  Append(@, c.content.items[Len(c.root) + 1])]
                        ELSE [c EXCEPT !.pc = "store"]]
    /\ UNCHANGED <<cached_feeds, source, result, fetched>>

\* rss_parser.py:103: self._cached_feeds[show_name] = root, one dict store.
StoreRoot(t) ==
    /\ calls[t].pc = "store"
    /\ LET c == calls[t]
       IN  /\ cached_feeds' = CachePut(cached_feeds, c.show_name, c.root)
           /\ calls' = [calls EXCEPT ![t] =
                            [IdleCall EXCEPT !.pc = "return",
                                             !.show_name = c.show_name]]
    /\ UNCHANGED <<source, result, fetched>>

\* rss_parser.py:108: return self._cached_feeds[show_name], read at the
\* moment of the return.
ReturnFeed(t) ==
    /\ calls[t].pc = "return"
    /\ calls' = [calls EXCEPT ![t] =
                    Returns(calls[t].show_name,
                            Feed(cached_feeds[calls[t].show_name]))]
    /\ UNCHANGED <<cached_feeds, source, result, fetched>>

\* What the feeds may hold in ConcSpec: the first changes while the calls
\* run, the second does not.
ConcInit ==
    /\ Fresh
    /\ source \in {[s \in FeedNames |-> IF s = Feeds[1] THEN o1 ELSE o2] :
                      o1 \in SpecOutcomes, o2 \in {FetchError, Doc(<<ItemOld>>)}}

ConcNext ==
    \/ \E outcome \in SpecOutcomes : SourceChange(Feeds[1], outcome)
    \/ \E t \in Callers, show_name \in FeedNames \cup {UnknownShow} :
          Enter(t, show_name)
    \/ \E t \in Callers : CheckCache(t)
    \/ \E t \in Callers : FetchContent(t)
    \/ \E t \in Callers : ParseContent(t)
    \/ \E t \in Callers : StoreRoot(t)
    \/ \E t \in Callers : ReturnFeed(t)

ConcSpec == ConcInit /\ [][ConcNext]_vars

-----------------------------------------------------------------------------
(* Vocabulary of the properties.                                           *)

\* r records a call of the parser.
IsLookup(r) == r.op \in {"search_episodes", "get_episode", "get_transcript"}

\* Call r resolves show s through _get_feed.
LooksUp(r, s) ==
    \/ r.op \in {"get_episode", "get_transcript"} /\ r.args.show_name = s
    \/ /\ r.op = "search_episodes"
       /\ r.raised = ""
       /\ r.args.show_name \in {"", s}

\* The shows a search with arguments a is scoped to.
Scope(a) == IF a.show_name # "" THEN <<a.show_name>> ELSE Feeds

\* The records of the cached document of a show, in document order (none for
\* a show without cache entry).
RecordsOf(s) ==
    IF s \in DOMAIN cached_feeds
    THEN [i \in 1..Len(cached_feeds[s]) |-> ParseEpisode(s, cached_feeds[s][i])]
    ELSE <<>>

RECURSIVE ConcatRecords(_, _)
ConcatRecords(shows, n) ==
    IF n > Len(shows) THEN <<>>
    ELSE RecordsOf(shows[n]) \o ConcatRecords(shows, n + 1)

\* Every record of the scoped shows, show after show.
Candidates(a) == ConcatRecords(Scope(a), 1)

\* The published date of record e normalizes to a point in time.
Normalizes(e) ==
    /\ ~e.published_date.none
    /\ e.published_date.v # EmptyDate
    /\ ~ParseDate(e.published_date.v).none

When(e) == Instant(ParseDate(e.published_date.v))

\* A date argument that is given and normalizes.
Bound(date) == date # EmptyDate /\ ~ParseDate(date).none

SinceHolds(a, e) ==
    (Bound(a.since_date) /\ Normalizes(e))
        => When(e) >= Instant(ParseDate(a.since_date))

BeforeHolds(a, e) ==
    (Bound(a.before_date) /\ Normalizes(e))
        => When(e) <= Instant(ParseDate(a.before_date))

HostsHold(a, e) ==
    a.hosts = <<>>
    \/ \E i \in 1..Len(a.hosts), j \in 1..Len(e.hosts) :
          Lower(a.hosts[i]) = Lower(e.hosts[j])

TextHolds(a, e) ==
    a.text_search = <<>>
    \/ (~e.title.none /\ Contains(Lower(e.title.v), Lower(a.text_search)))
    \/ Contains(Lower(e.description), Lower(a.text_search))

RECURSIVE Select(_, _)
Select(a, recs) ==
    IF recs = <<>> THEN <<>>
    ELSE IF SinceHolds(a, Head(recs)) /\ BeforeHolds(a, Head(recs))
            /\ HostsHold(a, Head(recs)) /\ TextHolds(a, Head(recs))
         THEN <<Head(recs)>> \o Select(a, Tail(recs))
         ELSE Select(a, Tail(recs))

\* s is a subsequence of t.
RECURSIVE IsSubseq(_, _)
IsSubseq(s, t) ==
    IF s = <<>> THEN TRUE
    ELSE IF t = <<>> THEN FALSE
    ELSE IF Head(s) = Head(t) THEN IsSubseq(Tail(s), Tail(t))
    ELSE IsSubseq(s, Tail(t))

ShowIndex(name) == CHOOSE i \in 1..Len(Feeds) : Feeds[i] = name

Returned(r) == r.op = "search_episodes" /\ r.raised = ""

-----------------------------------------------------------------------------
(* C1.  Once a show's feed is cached, no later step changes its cache      *)
(* entry or fetches it again, whatever the source has become, and every    *)
(* record a call returns for that show is a record of the cached document. *)
C1_CachedNeverRefetched ==
    [][\A s \in DOMAIN cached_feeds :
          /\ s \in DOMAIN cached_feeds'
          /\ cached_feeds'[s] = cached_feeds[s]
          /\ s \notin Range(fetched')
          /\ (source' = source /\ IsLookup(result')) =>
                \A i \in 1..Len(result'.episodes) :
                    result'.episodes[i].show_name = s =>
                        \E k \in 1..Len(cached_feeds[s]) :
                            result'.episodes[i] = ParseEpisode(s, cached_feeds[s][k])
      ]_vars

\* A get_episode answered from the cache, without fetch, with a record the
\* source no longer holds.
C1_Witness ==
    /\ result.op = "get_episode"
    /\ result.args.show_name \in DOMAIN cached_feeds
    /\ result.episodes # <<>>
    /\ fetched = <<>>
    /\ LET s == result.args.show_name
       IN  /\ source[s].kind = "doc"
           /\ source[s].items # cached_feeds[s]
           /\ \A k \in 1..Len(source[s].items) :
                 ParseEpisode(s, source[s].items[k]) # result.episodes[1]

(* C2.  A lookup of a show without cache entry fetches it; when the fetch  *)
(* or the parse fails, no entry is created and the call gets None (no      *)
(* record of that show); when it succeeds the fetched document is cached.  *)
C2_FailureNotCached ==
    [][source' = source =>
          \A s \in FeedNames :
              /\ (s \notin DOMAIN cached_feeds /\ LooksUp(result', s))
                    => s \in Range(fetched')
              /\ (s \in Range(fetched') /\ source[s].kind # "doc") =>
                    /\ s \notin DOMAIN cached_feeds'
                    /\ \A i \in 1..Len(result'.episodes) :
                          result'.episodes[i].show_name # s
                    /\ result'.args.show_name = s =>
                          result'.episodes = <<>> /\ result'.transcript = <<>>
              /\ (s \in Range(fetched') /\ source[s].kind = "doc") =>
                    /\ s \in DOMAIN cached_feeds'
                    /\ cached_feeds'[s] = source[s].items
      ]_vars

\* A get_episode whose fetch failed on malformed XML: fetched, not cached.
C2_Witness ==
    /\ result.op = "get_episode"
    /\ result.args.show_name \in FeedNames
    /\ fetched = <<result.args.show_name>>
    /\ source[result.args.show_name] = Malformed
    /\ result.args.show_name \notin DOMAIN cached_feeds
    /\ result.episodes = <<>>

(* C3.  search_episodes without any of its five parameters raises          *)
(* ValueError, returns nothing, fetches nothing and leaves the cache as it *)
(* was.                                                                    *)
C3_NoParameterIsInvalidQuery ==
    [][(/\ source' = source
        /\ result'.op = "search_episodes"
        /\ result'.args.show_name = ""
        /\ result'.args.since_date = EmptyDate
        /\ result'.args.before_date = EmptyDate
        /\ result'.args.hosts = <<>>
        /\ result'.args.text_search = <<>>)
       => /\ result'.raised = "ValueError"
          /\ result'.episodes = <<>>
          /\ fetched' = <<>>
          /\ cached_feeds' = cached_feeds
      ]_vars

\* The parameterless search made on a parser that has a feed cached while
\* the other feed is not.
C3_Witness ==
    /\ result.op = "search_episodes"
    /\ ~AnyParameter(result.args)
    /\ result.raised = "ValueError"
    /\ fetched = <<>>
    /\ DOMAIN cached_feeds = {Feeds[2]}
    /\ source[Feeds[1]].kind = "doc"

(* C4 as claimed.  While a since or before filter is active, no returned   *)
(* record has a published date that fails to normalize.                    *)
C4_UnparseableExcluded ==
    (Returned(result)
       /\ (Bound(result.args.since_date) \/ Bound(result.args.before_date)))
    => \A i \in 1..Len(result.episodes) : Normalizes(result.episodes[i])

(* C4, amended.  A record whose published date fails to normalize (or is   *)
(* empty or missing) is never excluded by a date filter: it is returned    *)
(* exactly when it satisfies the hosts and text filters.                   *)
C4_UnparseableKept ==
    Returned(result) =>
        LET recs == Candidates(result.args)
        IN  \A i \in 1..Len(recs) :
                ~Normalizes(recs[i]) =>
                    (recs[i] \in Range(result.episodes)
                        <=> HostsHold(result.args, recs[i])
                            /\ TextHolds(result.args, recs[i]))

\* A search with both date filters active that returns a record whose date
\* no layout reads and a record without pubDate.
C4_Witness ==
    /\ Returned(result)
    /\ Bound(result.args.since_date)
    /\ Bound(result.args.before_date)
    /\ \E i, j \in 1..Len(result.episodes) :
          /\ result.episodes[i].published_date = PyVal(GarbageDate)
          /\ result.episodes[j].published_date = PyVal(EmptyDate)

AllShowsWithFailure(r) ==
    /\ r.op = "search_episodes"
    /\ r.args.show_name = ""
    /\ r.raised # "ValueError"
    /\ \E s \in Range(fetched) : source[s].kind # "doc"

(* C6.  An all-shows search in which the fetch or the parse of a show      *)
(* fails still completes without error: every configured show is          *)
(* resolved, and the result is exactly the matching records of the shows   *)
(* that were fetched, in configured order; a failed show contributes none. *)
C6_FailedShowContributesNothing ==
    AllShowsWithFailure(result)
    => /\ result.raised = ""
       /\ \A s \in FeedNames :
             /\ s \in DOMAIN cached_feeds <=> source[s].kind = "doc"
             /\ s \in DOMAIN cached_feeds => cached_feeds[s] = source[s].items
             /\ source[s].kind # "doc" =>
                   \A i \in 1..Len(result.episodes) :
                       result.episodes[i].show_name # s
       /\ result.episodes = Select(result.args, Candidates(result.args))

\* The first configured feed failed and the search returned records of the
\* second.
C6_Witness ==
    /\ result.op = "search_episodes"
    /\ result.args.show_name = ""
    /\ result.raised = ""
    /\ source[Feeds[1]].kind # "doc"
    /\ fetched = Feeds
    /\ result.episodes # <<>>
    /\ \A i \in 1..Len(result.episodes) : result.episodes[i].show_name = Feeds[2]

(* C7.  The result of a search is a subsequence of the records of the      *)
(* scoped shows, show after show in scoped (configured) order and in       *)
(* document order within a show; it is not sorted by date.                 *)
C7_DocumentOrder ==
    Returned(result) =>
        /\ IsSubseq(result.episodes, Candidates(result.args))
        /\ \A i, j \in 1..Len(result.episodes) :
              (i < j /\ result.args.show_name = "") =>
                  ShowIndex(result.episodes[i].show_name)
                      <= ShowIndex(result.episodes[j].show_name)

\* An all-shows search that dropped a record, returned two records of the
\* first show with the later-dated one first, then records of the second.
C7_Witness ==
    /\ Returned(result)
    /\ result.args.show_name = ""
    /\ Len(result.episodes) >= 3
    /\ Len(result.episodes) < Len(Candidates(result.args))
    /\ result.episodes[1].show_name = Feeds[1]
    /\ result.episodes[2].show_name = Feeds[1]
    /\ result.episodes[1] # result.episodes[2]
    /\ Normalizes(result.episodes[1]) /\ Normalizes(result.episodes[2])
    /\ When(result.episodes[1]) > When(result.episodes[2])
    /\ result.episodes[Len(result.episodes)].show_name = Feeds[2]
(* C8.  The paginated tool reports total = the number of matching         *)
(* records, total_pages = ceil(total / per_page) for per_page > 0 and 0    *)
(* otherwise, and for page >= 1, per_page >= 1 the records at 0-based      *)
(* indices (page-1)*per_page .. page*per_page - 1 that exist; a page past  *)
(* the end is empty and no error.  12 matches, per_page 5: 3 pages, page 3 *)
(* holds 2 records, page 4 none.                                           *)
CeilDiv(n, d) == CHOOSE k \in 0..n : k * d >= n /\ (k = 0 \/ (k - 1) * d < n)

C8_Pagination ==
    result.op = "search_tool" =>
        LET all == Select(result.args, Candidates(result.args))
            pp  == result.per_page
            pg  == result.page
        IN  /\ result.raised = ""
                <=> (result.args.show_name # "" \/ result.args.since_date # EmptyDate)
            /\ result.raised = "" =>
                /\ result.total = Len(all)
                /\ result.total_pages = IF pp > 0 THEN CeilDiv(Len(all), pp) ELSE 0
                /\ (pg >= 1 /\ pp >= 1) =>
                      /\ Len(result.episodes)
                            = Max(0, Min(Len(all), pg * pp) - (pg - 1) * pp)
                      /\ \A k \in 1..Len(result.episodes) :
                            result.episodes[k] = all[(pg - 1) * pp + k]
                /\ (Len(all) = 12 /\ pp = 5) =>
                      /\ result.total_pages = 3
                      /\ pg = 3 => Len(result.episodes) = 2
                      /\ pg = 4 => result.episodes = <<>>

\* 12 matching records, per_page 5, page 3: the last two records.
C8_Witness ==
    /\ result.op = "search_tool"
    /\ result.raised = ""
    /\ result.total = 12
    /\ result.per_page = 5
    /\ result.page = 3
    /\ result.total_pages = 3
    /\ Len(result.episodes) = 2
    /\ result.episodes[2].id = PyVal("12")

GuidIs(item, q) == item.guid.st = "text" /\ item.guid.text = q

EpisodeIs(item, q) == item.episode.st = "text" /\ item.episode.text = q

\* The last call is a get_episode on a show whose document is cached.
EpisodeLookedUp ==
    result.op = "get_episode" /\ result.args.show_name \in DOMAIN cached_feeds

(* C9 as claimed.  When one entry's guid equals the query and another      *)
(* entry matches it only by episode number, get_episode returns the entry  *)
(* matched by guid, whatever their order in the document.                  *)
C9_GuidPreferred ==
    EpisodeLookedUp =>
        LET s     == result.args.show_name
            items == cached_feeds[s]
            q     == result.episode_number
        IN  (\E i, j \in 1..Len(items) :
                /\ GuidIs(items[i], q)
                /\ ~GuidIs(items[j], q) /\ EpisodeIs(items[j], q))
            => \E i \in 1..Len(items) :
                  /\ GuidIs(items[i], q)
                  /\ result.episodes = <<ParseEpisode(s, items[i])>>

(* C9, amended.  get_episode returns the first entry in document order     *)
(* that matches the query by guid or by episode number (None when no entry *)
(* matches): an entry matching by episode number that precedes the entry   *)
(* with that guid is the one returned.                                     *)
C9_FirstMatchReturned ==
    EpisodeLookedUp =>
        LET s     == result.args.show_name
            items == cached_feeds[s]
            q     == result.episode_number
            hits  == {i \in 1..Len(items) : GuidIs(items[i], q) \/ EpisodeIs(items[i], q)}
        IN  IF hits = {} THEN result.episodes = <<>>
            ELSE \E i \in hits :
                    /\ \A j \in hits : i <= j
                    /\ result.episodes = <<ParseEpisode(s, items[i])>>

\* Episode number 5 on guid 100 comes before guid 5: guid 100 is returned.
C9_Witness ==
    /\ EpisodeLookedUp
    /\ result.episode_number = "5"
    /\ cached_feeds[result.args.show_name] = <<ItemTexas, ItemGuid5>>
    /\ Len(result.episodes) = 1
    /\ result.episodes[1].id = PyVal("100")

\* The last call names a show that is not configured.
UnknownLookedUp(r) == IsLookup(r) /\ r.args.show_name = UnknownShow

\* A configured show whose lookup now fails (not cached, source broken).
Failing(s) == s \notin DOMAIN cached_feeds /\ source[s].kind # "doc"

(* C10 as claimed.  A lookup of a show that is not configured fetches      *)
(* nothing, caches nothing, finds no episode, and its outcome differs from *)
(* the outcome of a lookup whose fetch or parse fails.                     *)
C10_NotFoundDistinct ==
    UnknownLookedUp(result) =>
        /\ fetched = <<>>
        /\ UnknownShow \notin DOMAIN cached_feeds
        /\ result.episodes = <<>>
        /\ \A s \in FeedNames :
              Failing(s) =>
                  /\ GetFeed(cached_feeds, source, UnknownShow).feed
                        # GetFeed(cached_feeds, source, s).feed
                  /\ GetEpisode(cached_feeds, source, UnknownShow,
                                result.episode_number).episode
                        # GetEpisode(cached_feeds, source, s,
                                     result.episode_number).episode

(* C10, amended.  A lookup of a show that is not configured fetches        *)
(* nothing, leaves the cache as it was (no entry for it), and returns None *)
(* (no record, no transcript): the same return value as a lookup of a      *)
(* configured show whose fetch or parse fails.                             *)
C10_UnknownShowIsNone ==
    [][source' = source =>
          /\ UnknownLookedUp(result') =>
                /\ fetched' = <<>>
                /\ cached_feeds' = cached_feeds
                /\ UnknownShow \notin DOMAIN cached_feeds'
                /\ result'.episodes = <<>>
                /\ result'.transcript = <<>>
                /\ result'.requested = ""
                /\ GetFeed(cached_feeds, source, UnknownShow).feed = NoFeed
          /\ \A s \in FeedNames :
                (/\ IsLookup(result') /\ result'.args.show_name = s
                 /\ s \in Range(fetched') /\ source[s].kind # "doc")
                => /\ result'.episodes = <<>>
                   /\ result'.transcript = <<>>
                   /\ GetFeed(cached_feeds', source', s).feed = NoFeed
      ]_vars

\* get_episode on the unknown show, with one feed cached and the other
\* failing.
C10_Witness ==
    /\ result.op = "get_episode"
    /\ result.args.show_name = UnknownShow
    /\ result.episodes = <<>>
    /\ fetched = <<>>
    /\ DOMAIN cached_feeds = {Feeds[1]}
    /\ Failing(Feeds[2])

\* The last call is a search that passed the precondition of line 123.
Searched(r) == r.op = "search_episodes" /\ r.raised # "ValueError"

\* Record e satisfies every filter that arguments a supply.
SatisfiesAll(a, e) ==
    /\ SinceHolds(a, e)
    /\ BeforeHolds(a, e)
    /\ HostsHold(a, e)
    /\ TextHolds(a, e)

(* C11.  The filters of search_episodes are conjunctive: a record of a     *)
(* scoped show is in the result exactly when it satisfies every supplied   *)
(* filter.  The host filter holds iff some requested host equals, ignoring *)
(* case, some host of the record (hosts = <<"Wes">> matches host "wes");   *)
(* the text filter holds iff the needle is, ignoring case, a substring of  *)
(* the title or of the description.                                        *)
C11_FiltersConjunctive ==
    Searched(result) =>
        LET a    == result.args
            recs == Candidates(a)
        IN  \A i \in 1..Len(recs) :
                /\ recs[i] \in Range(result.episodes) <=> SatisfiesAll(a, recs[i])
                /\ (/\ a.hosts = <<Wes>>
                    /\ a.since_date = EmptyDate /\ a.before_date = EmptyDate
                    /\ a.text_search = <<>>
                    /\ <<"w", "e", "s">> \in Range(recs[i].hosts))
                   => recs[i] \in Range(result.episodes)

\* A search for text "tex" over a document that holds a <title/> item whose
\* description holds the needle: the call raised and returned no record.
C11_Witness ==
    /\ Searched(result)
    /\ result.args.text_search = Tex
    /\ result.raised = "AttributeError"
    /\ result.episodes = <<>>
    /\ \E i \in 1..Len(Candidates(result.args)) :
          LET e == Candidates(result.args)[i]
          IN  e.title.none /\ SatisfiesAll(result.args, e)

\* The callers whose fetch of show s is in flight.
Fetching(cs, s) == {t \in Callers : cs[t].show_name = s /\ cs[t].pc \in InFlight}

\* This step puts a document in the slot of show s, or replaces the one in it.
Publishes(s) ==
    /\ s \in DOMAIN cached_feeds'
    /\ s \in DOMAIN cached_feeds => cached_feeds'[s] # cached_feeds[s]

\* This step is the store of line 103 by a caller of show s that has fetched
\* and parsed a whole document, which is what the slot holds after it.
PublishesWhole(s) ==
    \E t \in Callers :
        /\ calls[t].pc = "store" /\ calls'[t].pc = "return"
        /\ calls[t].show_name = s
        /\ calls[t].content.kind = "doc"
        /\ cached_feeds'[s] = calls[t].content.items

\* Every caller that has returned a document of show s returned the same.
SameForAll(cs, s) ==
    \A t, u \in Callers :
        (/\ cs[t].pc = "done" /\ cs[u].pc = "done"
         /\ cs[t].show_name = s /\ cs[u].show_name = s
         /\ cs[t].feed.ok /\ cs[u].feed.ok)
        => cs[t].feed = cs[u].feed

(* C12 as claimed.  Under any interleaving of concurrent _get_feed calls,  *)
(* a cache slot is only ever filled with a completely fetched and parsed   *)
(* document, at most one fetch per show is in flight at a time, and once a *)
(* document is published the slot keeps it and all callers observe that    *)
(* same document.                                                          *)
C12_SingleFlightPublishOnce ==
    [][\A s \in FeedNames :
          /\ Publishes(s) => PublishesWhole(s)
          /\ Cardinality(Fetching(calls', s)) <= 1
          /\ s \in DOMAIN cached_feeds =>
                /\ s \in DOMAIN cached_feeds'
                /\ cached_feeds'[s] = cached_feeds[s]
          /\ SameForAll(calls', s)
      ]_vars

(* C12, amended.  Under any interleaving of concurrent _get_feed calls, a  *)
(* cache slot is filled only by the single store of line 103, with a       *)
(* completely fetched and parsed document, and is never emptied; but every *)
(* caller that finds the slot absent starts its own fetch (several may be  *)
(* in flight for one show), each successful one publishes its document in  *)
(* place of the one published before, and a caller returns the document    *)
(* the slot holds at the moment it returns.  A caller that finds the slot  *)
(* filled fetches nothing, and once no fetch of the show is in flight the  *)
(* published document stays.                                               *)
C12_AtomicPublishNoSingleFlight ==
    [][\A s \in FeedNames :
          /\ Publishes(s) => PublishesWhole(s)
          /\ s \in DOMAIN cached_feeds => s \in DOMAIN cached_feeds'
          /\ (s \in DOMAIN cached_feeds /\ Fetching(calls, s) = {}) =>
                /\ cached_feeds'[s] = cached_feeds[s]
                /\ Fetching(calls', s) = {}
          /\ \A t \in Callers :
                calls[t].show_name = s =>
                    /\ (calls[t].pc = "check" /\ calls'[t].pc # "check") =>
                          calls'[t].pc = IF s \in DOMAIN cached_feeds
                                         THEN "return" ELSE "fetch"
                    /\ (calls[t].pc = "return" /\ calls'[t].pc # "return") =>
                          /\ calls'[t].pc = "done"
                          /\ calls'[t].feed = Feed(cached_feeds[s])
      ]_vars

\* Two callers of the same show both fetched it, both published, and
\* returned different documents; the slot holds one of the two.
C12_Witness ==
    \E t, u \in Callers :
        /\ t # u
        /\ calls[t].pc = "done" /\ calls[u].pc = "done"
        /\ calls[t].show_name = calls[u].show_name
        /\ calls[t].feed.ok /\ calls[u].feed.ok
        /\ calls[t].feed # calls[u].feed
        /\ cached_feeds[calls[t].show_name] = calls[u].feed.items

\* A date argument that is given (non-empty) and fails to normalize.
Unreadable(date) == date # EmptyDate /\ ParseDate(date).none

\* Arguments a with every date argument that fails to normalize left out.
Omitting(a) ==
    [a EXCEPT !.since_date  = IF Unreadable(@) THEN EmptyDate ELSE @,
              !.before_date = IF Unreadable(@) THEN EmptyDate ELSE @]

\* The last call is a search given a date argument that fails to normalize.
UnreadableDateGiven(r) ==
    /\ r.op = "search_episodes"
    /\ Unreadable(r.args.since_date) \/ Unreadable(r.args.before_date)

(* C13.  A since or before argument that is non-empty and fails to         *)
(* normalize counts as a supplied parameter and imposes no restriction:    *)
(* the search reports no error and returns exactly the records it returns  *)
(* with that argument omitted, the other filters and the show scope        *)
(* unchanged (every record of the scope when nothing else is supplied).    *)
C13_UnreadableDateIgnored ==
    UnreadableDateGiven(result) =>
        LET a    == result.args
            rest == Omitting(a)
        IN  /\ result.raised = ""
            /\ result.episodes = Select(rest, Candidates(a))
            /\ AnyParameter(rest) =>
                  result.episodes = SearchEpisodes(<<>>, source, rest).results
            /\ ~AnyParameter(rest) => result.episodes = Candidates(a)

\* A search whose only parameter is an unreadable since date returned every
\* record of both shows; one of them is dated before any readable bound
\* drawn and one has no date.
C13_Witness ==
    /\ UnreadableDateGiven(result)
    /\ ~AnyParameter(Omitting(result.args))
    /\ result.raised = ""
    /\ Len(result.episodes) >= 3
    /\ result.episodes = Candidates(result.args)
    /\ \E i \in 1..Len(result.episodes) :
          result.episodes[i].published_date = PyVal(IsoDate(2025, 9, 30))

=============================================================================
